---- MODULE Spec2Model ----
(***************************************************************************)
(* The persistence core of the live Q&A server (server/src/main.rs): the   *)
(* Backend enum (a DynamoDB client or a mutex-guarded in-memory store),    *)
(* check_secret on both backends, the seeding of the local store in main,  *)
(* and the request handlers that main routes (new, ask, vote, list_all,    *)
(* toggle).  The handler modules (ask, list, new, toggle, vote) are        *)
(* declared by main.rs (lines 40-45) but their files are not part of the   *)
(* source tree at hand: their bodies follow spec.md sections 4.1-4.4 and   *)
(* are marked as such at each definition.  The read-only routes (list,     *)
(* question) and the rejection of an unknown toggle property touch no      *)
(* state that a property below reads and are left out.                     *)
(***************************************************************************)
EXTENDS Integers, Sequences, FiniteSets, TLC

\* ------------------------------------------------------------------ bounds
\* Number of inbound requests; each is an independent task making one call.
NumRequests == 2
\* Largest number of entries of the seed fixture (test.json).
MaxSeed == 2
\* Largest number of questions created by ask requests.
MaxAsk == 1
\* Largest number of events created by new requests.
MaxNew == 1

\* --------------------------------------------------------------- constants
\* main.rs:121  "00000000-0000-0000-0000-000000000000"
SeedEvent == 0
\* main.rs:123  String::from("secret")
SeedSecret == "secret"

Requests == 1..NumRequests
EventIds == 0..MaxNew
QuestionIds == 1..(MaxSeed + MaxAsk)
\* Secrets a caller may supply; each is a wrong secret for the other event.
Secrets == {"secret", "k1"}
\* Secrets that new generates.
NewSecrets == {"k1"}
\* The two moderation flags (the Property path segment of the toggle route).
Properties == {"hidden", "answered"}
Directions == {"up", "down"}
\* Values of the clock read by ask.
Clock == {9}
Texts == {"q"}

\* Entries of the fixture: LiveAskQuestion, main.rs:97-106.
LiveAskQuestion ==
    { [likes |-> 0, text |-> "q", hidden |-> FALSE, answered |-> FALSE, created |-> 1],
      [likes |-> 2, text |-> "q", hidden |-> TRUE, answered |-> TRUE, created |-> 2] }

\* Every fixture of at most MaxSeed entries.
SeedFixtures == UNION { [1..n -> LiveAskQuestion] : n \in 0..MaxSeed }

\* ------------------------------------------------------- attribute values
\* AttributeValue::S(s): a string attribute.
Str(s) == [t |-> "S", v |-> s]
\* An attribute that is not a string (as_s() fails on it).
NonStr == [t |-> "N", v |-> "0"]
\* An item that was found but has no "secret" field.
NoField == [t |-> "nofield", v |-> ""]
\* get_item found no item for the key.
NoItem == [t |-> "noitem", v |-> ""]
\* get_item failed (SdkError).
ReadErr == [t |-> "err", v |-> ""]
\* No response yet.
NoResp == [t |-> "-", v |-> ""]

\* Contents the remote events table may have when the server starts.
DynamoTables ==
    { [e \in {} |-> NoResp] } \cup
    { [e \in {SeedEvent} |-> a] : a \in {Str(SeedSecret), NonStr, NoField} }

\* Contents the remote questions table may have when the server starts: none,
\* or one question as ask stores it.
DynamoQuestions ==
    { [q \in {} |-> NoResp],
      [q \in {1} |-> [eid |-> SeedEvent, text |-> "q", votes |-> 0,
                       hidden |-> FALSE, answered |-> FALSE, when |-> 1]] }

\* ------------------------------------------------------------------ state
VARIABLES
    backend,          \* "Local" | "Dynamo": the Backend variant, fixed at startup
    phase,            \* "seed" (main.rs:126-146) | "serve" (151-170)
    seed,             \* the parsed fixture, Vec<LiveAskQuestion>
    qs,               \* main.rs:126: (qid, created, likes, hidden, answered)
    events,           \* Local.events / the remote events table
    questions,        \* Local.questions / the remote questions table
    questions_by_eid, \* Local.questions_by_eid
    holder,           \* the request holding the store mutex, 0 when free
    poisoned,         \* the mutex is poisoned (a holder panicked)
    pc,               \* position of each request
    call,             \* the call each request makes
    resp,             \* the get_item response each check_secret received
    auth,             \* the outcome of check_secret in each request
    result,           \* what each request ended with
    tmp               \* the votes value a local vote has read

vars == <<backend, phase, seed, qs, events, questions, questions_by_eid,
          holder, poisoned, pc, call, resp, auth, result, tmp>>

store == <<events, questions, questions_by_eid>>
fixed == <<backend, seed, qs>>

\* --------------------------------------------------------------- requests
NoCall == [op |-> "-", eid |-> -1, secret |-> "-", qid |-> -1, prop |-> "-", dir |-> "-"]
CallNew == [NoCall EXCEPT !.op = "new"]
CallAsk(e) == [NoCall EXCEPT !.op = "ask", !.eid = e]
CallVote(q, d) == [NoCall EXCEPT !.op = "vote", !.qid = q, !.dir = d]
CallListAll(e, s) == [NoCall EXCEPT !.op = "list_all", !.eid = e, !.secret = s]
CallToggle(e, s, q, p) ==
    [NoCall EXCEPT !.op = "toggle", !.eid = e, !.secret = s, !.qid = q, !.prop = p]

\* The routes of main.rs:151-161 that reach a state-changing or gated call.
Calls ==
    {CallNew}
    \cup { CallAsk(e) : e \in EventIds }
    \cup { CallVote(q, d) : q \in QuestionIds, d \in Directions }
    \cup { CallListAll(e, s) : e \in EventIds, s \in Secrets }
    \cup { CallToggle(e, s, q, p) :
             e \in EventIds, s \in Secrets, q \in QuestionIds, p \in Properties }

NoResult == [kind |-> "-", n |-> 0, qs |-> {}]
Ok(n, q) == [kind |-> "ok", n |-> n, qs |-> q]
Fail(k) == [kind |-> k, n |-> 0, qs |-> {}]

\* ------------------------------------------------------------ check_secret
\* A match that treats a missing record as a failed read.
CheckSecretDynamo_MissingIsFailure(r, secret) ==
    IF r = ReadErr \/ r.t # "S" THEN "StoreUnavailable"
    ELSE IF r.v = secret THEN "Authorized"
    ELSE "Forbidden"

\* main.rs:58-74: the match on the get_item response.
CheckSecretDynamo(r, secret) ==
    IF r = ReadErr THEN "StoreUnavailable"
    ELSE IF r.t = "S" /\ r.v = secret THEN "Authorized"
    ELSE "Forbidden"

\* main.rs:50-56: the projected read of the events table, when it succeeds.
GetItemSecret(tbl, eid) == IF eid \in DOMAIN tbl THEN tbl[eid] ELSE NoItem

\* main.rs:79-83: events[eid] == secret.  Indexing a HashMap with a key it
\* does not hold panics.
CheckSecretLocal(ev, eid, secret) ==
    IF eid \notin DOMAIN ev THEN "panic"
    ELSE IF ev[eid] = Str(secret) THEN "Authorized"
    ELSE "Forbidden"

\* A store that is not guarded: anyone may enter at any time.
LockFree_Unguarded == TRUE

\* main.rs:30: the Mutex of Backend::Local can be acquired when nobody holds it.
LockFree == holder = 0

\* ---------------------------------------------------------------- startup
\* main.rs:118-125 (debug build): Local::default(), the seed event and its
\* empty question list, wrapped in the mutex; main.rs:147-149 (release
\* build): the DynamoDB client, whose tables hold what they hold.
Init ==
    /\ backend \in {"Local", "Dynamo"}
    /\ IF backend = "Local"
         THEN /\ seed \in SeedFixtures
              /\ events = (SeedEvent :> Str(SeedSecret))
              /\ questions = <<>>
              /\ questions_by_eid = (SeedEvent :> <<>>)
              /\ phase = "seed"
         ELSE /\ seed = <<>>
              /\ events \in DynamoTables
              /\ questions \in DynamoQuestions
              /\ \A q \in DOMAIN questions : questions[q].eid \in DOMAIN events
              /\ questions_by_eid = <<>>
              /\ phase = "serve"
    /\ qs = <<>>
    /\ holder = 0
    /\ poisoned = FALSE
    /\ pc = [t \in Requests |-> "idle"]
    /\ call = [t \in Requests |-> NoCall]
    /\ resp = [t \in Requests |-> NoResp]
    /\ auth = [t \in Requests |-> "none"]
    /\ result = [t \in Requests |-> NoResult]
    /\ tmp = [t \in Requests |-> 0]

\* uuid::Uuid::new_v4() (main.rs:128): an id no question has yet.
FreshQid == CHOOSE q \in QuestionIds \ DOMAIN questions :
                \A r \in QuestionIds \ DOMAIN questions : q <= r

\* An id no event has yet.
FreshEid == CHOOSE e \in (EventIds \ {SeedEvent}) \ DOMAIN events :
                \A r \in (EventIds \ {SeedEvent}) \ DOMAIN events : e <= r

\* spec.md 4.1 ask: the question as ask creates it.
NewQuestion(eid, text, now) ==
    [eid |-> eid, text |-> text, votes |-> 0, hidden |-> FALSE,
     answered |-> FALSE, when |-> now]

\* A patch that forgets the insert of "when".
SeedOverride_KeepsWhen(q, e) ==
    [q EXCEPT !.votes = e[3], !.answered = e[5], !.hidden = e[4]]

\* main.rs:139-143: the four inserts that overwrite what ask stored, for one
\* tuple e = (qid, created, votes, hidden, answered) of qs.
SeedOverride(q, e) ==
    [q EXCEPT !.votes = e[3], !.answered = e[5], !.hidden = e[4], !.when = e[2]]

\* main.rs:127-131: one turn of the loop over the fixture.
SeedAsk ==
    /\ phase = "seed"
    /\ Len(qs) < Len(seed)
    /\ LET q == seed[Len(qs) + 1]
           qid == FreshQid
       IN \E now \in Clock :
            /\ questions' = questions @@ (qid :> NewQuestion(SeedEvent, q.text, now))
            /\ questions_by_eid' =
                 [questions_by_eid EXCEPT ![SeedEvent] = Append(@, qid)]
            /\ qs' = Append(qs, <<qid, q.created, q.likes, q.hidden, q.answered>>)
    /\ UNCHANGED <<backend, phase, seed, events, holder, poisoned,
                   pc, call, resp, auth, result, tmp>>

\* main.rs:132-146: the loop over qs, with exclusive access to the store;
\* the server starts serving after it.
SeedPatch ==
    /\ phase = "seed"
    /\ Len(qs) = Len(seed)
    /\ questions' =
         [q \in DOMAIN questions |->
            IF \E i \in 1..Len(qs) : qs[i][1] = q
              THEN SeedOverride(questions[q],
                                qs[CHOOSE i \in 1..Len(qs) : qs[i][1] = q])
              ELSE questions[q]]
    /\ phase' = "serve"
    /\ UNCHANGED <<backend, seed, qs, events, questions_by_eid, holder, poisoned,
                   pc, call, resp, auth, result, tmp>>

\* --------------------------------------------------------------- requests
\* How many requests have made a call of kind op.
Issued(op) == Cardinality({ t \in Requests : call[t].op = op })

\* main.rs:151-161: a request arrives and is routed.  list_all and toggle
\* begin with check_secret (spec.md 4.4); the others go to the store.
Invoke(t) ==
    /\ phase = "serve"
    /\ pc[t] = "idle"
    /\ \A u \in Requests : u < t => pc[u] # "idle"
    /\ \E c \in Calls :
         /\ c.op = "new" => Issued("new") < MaxNew
         /\ c.op = "ask" => Issued("ask") < MaxAsk
         /\ call' = [call EXCEPT ![t] = c]
         /\ pc' = [pc EXCEPT ![t] = IF c.op \in {"list_all", "toggle"}
                                      THEN "check" ELSE "op"]
    /\ UNCHANGED <<fixed, phase, store, holder, poisoned, resp, auth, result, tmp>>

\* What a handler does with the outcome a of check_secret (the ? operator):
\* go on when authorized, end with the failure otherwise.
AfterCheck(t, a) ==
    /\ auth' = [auth EXCEPT ![t] = a]
    /\ IF a = "Authorized"
         THEN /\ pc' = [pc EXCEPT ![t] = "op"]
              /\ UNCHANGED result
         ELSE /\ pc' = [pc EXCEPT ![t] = "done"]
              /\ result' = [result EXCEPT ![t] = Fail(a)]

\* main.rs:49-75: check_secret on the remote backend.  The read fails or
\* returns what the table holds; the match decides.
CheckDynamo(t) ==
    /\ backend = "Dynamo"
    /\ pc[t] = "check"
    /\ \E r \in {ReadErr, GetItemSecret(events, call[t].eid)} :
         /\ resp' = [resp EXCEPT ![t] = r]
         /\ AfterCheck(t, CheckSecretDynamo(r, call[t].secret))
    /\ UNCHANGED <<fixed, phase, store, holder, poisoned, call, tmp>>

\* main.rs:77: local.lock().unwrap().  lock() waits for the mutex; on a
\* poisoned mutex it returns Err and unwrap panics (the guard inside the
\* error is dropped, so the mutex is free again and stays poisoned).
CheckLock(t) ==
    /\ backend = "Local"
    /\ pc[t] = "check"
    /\ LockFree
    /\ IF poisoned
         THEN /\ AfterCheck(t, "panic")
              /\ UNCHANGED holder
         ELSE /\ holder' = t
              /\ pc' = [pc EXCEPT ![t] = "checking"]
              /\ UNCHANGED <<auth, result>>
    /\ UNCHANGED <<fixed, phase, store, poisoned, call, resp, tmp>>

\* main.rs:78-84: the comparison under the lock.  A panic unwinds through
\* the guard, which poisons the mutex as it releases it.
CheckBody(t) ==
    /\ backend = "Local"
    /\ pc[t] = "checking"
    /\ LET a == CheckSecretLocal(events, call[t].eid, call[t].secret)
       IN /\ AfterCheck(t, a)
          /\ poisoned' = (poisoned \/ a = "panic")
    /\ holder' = 0
    /\ UNCHANGED <<fixed, phase, store, call, resp, tmp>>

\* ------------------------------------------------------ store operations
\* spec.md 4.3: every operation of the local adapter acquires the one mutex
\* for its full duration.  spec.md says nothing of a poisoned mutex and 7
\* has adapters return their failures, so the adapter enters whether or not
\* an earlier holder panicked.
OpLock(t) ==
    /\ backend = "Local"
    /\ pc[t] = "op"
    /\ LockFree
    /\ holder' = t
    /\ pc' = [pc EXCEPT ![t] = "locked"]
    /\ UNCHANGED <<fixed, phase, store, poisoned, call, resp, auth, result, tmp>>

\* The request is at the store: under the mutex (local), or making its one
\* request to the table (remote).
AtStore(t) ==
    \/ backend = "Local" /\ pc[t] = "locked"
    \/ backend = "Dynamo" /\ pc[t] = "op"

\* The operation ends with r and gives the mutex back.
Finish(t, r) ==
    /\ pc' = [pc EXCEPT ![t] = "done"]
    /\ result' = [result EXCEPT ![t] = r]
    /\ holder' = 0

\* spec.md 4.2 / 7: a request to the remote table fails and the failure is
\* returned as StoreUnavailable; nothing is changed.
DynamoFail(t) ==
    /\ backend = "Dynamo"
    /\ pc[t] = "op"
    /\ Finish(t, Fail("StoreUnavailable"))
    /\ UNCHANGED <<fixed, phase, store, poisoned, call, resp, auth, tmp>>

\* spec.md 4.1 create_event: a fresh id and a fresh secret, an empty
\* question set.
New(t) ==
    /\ AtStore(t)
    /\ call[t].op = "new"
    /\ LET eid == FreshEid
       IN \E s \in NewSecrets :
            /\ events' = events @@ (eid :> Str(s))
            /\ questions_by_eid' =
                 IF backend = "Local" THEN questions_by_eid @@ (eid :> <<>>)
                 ELSE questions_by_eid
            /\ Finish(t, Ok(eid, {}))
    /\ UNCHANGED <<fixed, phase, questions, poisoned, call, resp, auth, tmp>>

\* spec.md 4.1 ask: NotFound for an unknown event; otherwise a question with
\* votes 0, both flags false and the current time, added to the event.
Ask(t) ==
    /\ AtStore(t)
    /\ call[t].op = "ask"
    /\ IF call[t].eid \notin DOMAIN events
         THEN /\ Finish(t, Fail("NotFound"))
              /\ UNCHANGED <<questions, questions_by_eid>>
         ELSE LET qid == FreshQid
              IN \E now \in Clock, text \in Texts :
                   /\ questions' =
                        questions @@ (qid :> NewQuestion(call[t].eid, text, now))
                   /\ questions_by_eid' =
                        IF backend = "Local"
                          THEN [questions_by_eid EXCEPT ![call[t].eid] = Append(@, qid)]
                          ELSE questions_by_eid
                   /\ Finish(t, Ok(qid, {}))
    /\ UNCHANGED <<fixed, phase, events, poisoned, call, resp, auth, tmp>>

\* The questions of an event: the local index, or a query of the table.
QuestionsOf(eid) ==
    IF backend = "Local"
      THEN IF eid \in DOMAIN questions_by_eid
             THEN { questions_by_eid[eid][i] : i \in 1..Len(questions_by_eid[eid]) }
             ELSE {}
      ELSE { q \in DOMAIN questions : questions[q].eid = eid }

\* spec.md 4.1 list_all: every question of the event, whatever its flags.
ListAll(t) ==
    /\ AtStore(t)
    /\ call[t].op = "list_all"
    /\ Finish(t, Ok(0, QuestionsOf(call[t].eid)))
    /\ UNCHANGED <<fixed, phase, store, poisoned, call, resp, auth, tmp>>

\* The question with one of its two flags flipped.
ToggleFlag(q, prop) ==
    IF prop = "hidden" THEN [q EXCEPT !.hidden = ~@] ELSE [q EXCEPT !.answered = ~@]

\* spec.md 4.1 toggle(question_id, property): NotFound for an absent
\* question; otherwise flips the flag and returns the new value.
Toggle(t) ==
    /\ AtStore(t)
    /\ call[t].op = "toggle"
    /\ LET q == call[t].qid
       IN IF q \notin DOMAIN questions
            THEN /\ Finish(t, Fail("NotFound"))
                 /\ UNCHANGED questions
            ELSE LET new == ToggleFlag(questions[q], call[t].prop)
                 IN /\ questions' = [questions EXCEPT ![q] = new]
                    /\ Finish(t, Ok(IF new[call[t].prop] THEN 1 ELSE 0, {}))
    /\ UNCHANGED <<fixed, phase, events, questions_by_eid, poisoned,
                   call, resp, auth, tmp>>

\* A vote that lets the count go below zero.
VoteApply_NoClamp(v, dir) == IF dir = "up" THEN v + 1 ELSE v - 1

\* spec.md 4.1 vote: +1 (up) or -1 (down), never below 0.
VoteApply(v, dir) ==
    IF dir = "up" THEN v + 1 ELSE IF v > 0 THEN v - 1 ELSE 0

\* Local vote, first half: under the mutex, look the question up and read
\* its votes.
VoteRead(t) ==
    /\ backend = "Local"
    /\ pc[t] = "locked"
    /\ call[t].op = "vote"
    /\ IF call[t].qid \notin DOMAIN questions
         THEN /\ Finish(t, Fail("NotFound"))
              /\ UNCHANGED tmp
         ELSE /\ tmp' = [tmp EXCEPT ![t] = questions[call[t].qid].votes]
              /\ pc' = [pc EXCEPT ![t] = "voting"]
              /\ UNCHANGED <<result, holder>>
    /\ UNCHANGED <<fixed, phase, store, poisoned, call, resp, auth>>

\* Local vote, second half: store the new count, return it, release.
VoteWrite(t) ==
    /\ backend = "Local"
    /\ pc[t] = "voting"
    /\ LET n == VoteApply(tmp[t], call[t].dir)
       IN /\ questions' = [questions EXCEPT ![call[t].qid].votes = n]
          /\ Finish(t, Ok(n, {}))
    /\ UNCHANGED <<fixed, phase, events, questions_by_eid, poisoned,
                   call, resp, auth, tmp>>

\* spec.md 4.2: the remote vote is one atomic update of the stored record.
VoteDynamo(t) ==
    /\ backend = "Dynamo"
    /\ pc[t] = "op"
    /\ call[t].op = "vote"
    /\ LET q == call[t].qid
       IN IF q \notin DOMAIN questions
            THEN /\ Finish(t, Fail("NotFound"))
                 /\ UNCHANGED questions
            ELSE LET n == VoteApply(questions[q].votes, call[t].dir)
                 IN /\ questions' = [questions EXCEPT ![q].votes = n]
                    /\ Finish(t, Ok(n, {}))
    /\ UNCHANGED <<fixed, phase, events, questions_by_eid, poisoned,
                   call, resp, auth, tmp>>

Next ==
    \/ SeedAsk
    \/ SeedPatch
    \/ \E t \in Requests :
         \/ Invoke(t)
         \/ CheckDynamo(t)
         \/ CheckLock(t)
         \/ CheckBody(t)
         \/ OpLock(t)
         \/ DynamoFail(t)
         \/ New(t)
         \/ Ask(t)
         \/ ListAll(t)
         \/ Toggle(t)
         \/ VoteRead(t)
         \/ VoteWrite(t)
         \/ VoteDynamo(t)

Spec == Init /\ [][Next]_vars

\* ================================================================= claims
\* The step in which request t obtains the outcome of check_secret.
CheckReturns(t) == auth[t] = "none" /\ auth'[t] # "none"

\* The step in which request t ends.
Ends(t) == pc[t] # "done" /\ pc'[t] = "done"

\* The event e is stored with the string secret s.
HasSecret(e, s) == e \in DOMAIN events /\ events[e] = Str(s)

\* The event e is stored with some string secret.
HasStringSecret(e) == e \in DOMAIN events /\ events[e].t = "S"

\* The votes of question q when the server starts serving: the likes of its
\* fixture entry, or 0 for a question created by ask.
BaseVotes(q) ==
    IF \E i \in 1..Len(qs) : qs[i][1] = q
      THEN qs[CHOOSE i \in 1..Len(qs) : qs[i][1] = q][3]
      ELSE 0

\* ---------------------------------------------------------------------- C1
\* C1: for every stored event E with string secret S, a check_secret call on
\* E.id (local backend, or remote backend whose read succeeds) returns
\* Authorized when the supplied secret is S and Forbidden when it is not.
C1_CheckSecretDecides ==
    [][\A t \in Requests :
         (CheckReturns(t) /\ HasStringSecret(call[t].eid) /\ resp'[t] # ReadErr)
           => auth'[t] = IF HasSecret(call[t].eid, call[t].secret)
                           THEN "Authorized" ELSE "Forbidden"]_vars

\* ---------------------------------------------------------------------- C2
\* C2: toggle and list_all whose supplied secret is not the stored secret of
\* the event named in the request (the secret being readable) end Forbidden;
\* a Forbidden toggle changes no question and a Forbidden list_all returns
\* no question.
C2_GateBeforeMutation ==
    [][\A t \in Requests :
         /\ (/\ CheckReturns(t)
             /\ HasStringSecret(call[t].eid)
             /\ ~HasSecret(call[t].eid, call[t].secret)
             /\ resp'[t] # ReadErr)
              => (pc'[t] = "done" /\ result'[t] = Fail("Forbidden"))
         /\ (Ends(t) /\ result'[t].kind = "Forbidden")
              => (questions' = questions /\ result'[t].qs = {})]_vars

\* ---------------------------------------------------------------------- C3
\* The up votes on q that have returned a count.
UpsDone(q) ==
    Cardinality({ t \in Requests :
                    call[t] = CallVote(q, "up") /\ pc[t] = "done"
                    /\ result[t].kind = "ok" })

\* C3: when the only votes issued on a question are up votes, its count is
\* its count at startup plus the number of up votes that have returned,
\* however the requests interleave: no up vote is lost.
C3_NoLostVote ==
    phase = "serve" =>
      \A q \in DOMAIN questions :
        (\A t \in Requests : call[t] # CallVote(q, "down"))
          => questions[q].votes = BaseVotes(q) + UpsDone(q)

\* Two up votes on the same question of the local store have both returned
\* and both are counted.
C3_Witness ==
    /\ backend = "Local"
    /\ \E q \in DOMAIN questions :
         /\ UpsDone(q) = 2
         /\ questions[q].votes = BaseVotes(q) + 2

\* ---------------------------------------------------------------------- C4
\* C4: every check_secret call ends by returning a value; none aborts the
\* calling task.
C4_CheckSecretReturns == \A t \in Requests : auth[t] # "panic"

\* ---------------------------------------------------------------------- C5
\* C5: on the same stored events and the same arguments, check_secret on the
\* local backend gives what check_secret on a reachable remote backend gives.
C5_BackendsAgree ==
    [][\A t \in Requests :
         (backend = "Local" /\ CheckReturns(t))
           => auth'[t] = CheckSecretDynamo(GetItemSecret(events, call[t].eid),
                                           call[t].secret)]_vars

\* ---------------------------------------------------------------------- C6
\* C6: on the remote backend check_secret returns StoreUnavailable exactly
\* when the read failed; a read that finds no item, or an item without a
\* string secret, returns Forbidden.
C6_RemoteFailureKinds ==
    \A t \in Requests :
      (backend = "Dynamo" /\ auth[t] # "none") =>
        /\ auth[t] = "StoreUnavailable" <=> resp[t] = ReadErr
        /\ resp[t].t \in {"noitem", "nofield", "N"} => auth[t] = "Forbidden"
        /\ resp[t] = ReadErr => auth[t] \notin {"Authorized", "Forbidden"}

\* One check met a failed read, another a read that found no usable secret.
C6_Witness ==
    /\ backend = "Dynamo"
    /\ \E t, u \in Requests :
         /\ resp[t] = ReadErr /\ auth[t] = "StoreUnavailable"
         /\ resp[u].t \in {"noitem", "nofield", "N"} /\ auth[u] = "Forbidden"

\* ---------------------------------------------------------------------- C7
\* C7: the votes of every question are at least 0 in every state, seeding
\* included; a down vote that the store serves on a question with 0 votes
\* returns 0 and leaves the votes at 0.
C7_VotesFloor ==
    /\ [](\A q \in DOMAIN questions : questions[q].votes >= 0)
    /\ [][\A t \in Requests :
            (/\ Ends(t)
             /\ call[t].op = "vote" /\ call[t].dir = "down"
             /\ result'[t].kind # "StoreUnavailable"
             /\ call[t].qid \in DOMAIN questions
             /\ questions[call[t].qid].votes = 0)
              => (result'[t] = Ok(0, {}) /\ questions'[call[t].qid].votes = 0)]_vars

\* A down vote on a question that had 0 votes, and no other request, has
\* returned 0.
C7_Witness ==
    \E t \in Requests :
      /\ pc[t] = "done"
      /\ call[t].op = "vote" /\ call[t].dir = "down"
      /\ BaseVotes(call[t].qid) = 0
      /\ result[t] = Ok(0, {})
      /\ \A u \in Requests \ {t} : pc[u] = "idle"

\* ---------------------------------------------------------------------- C8
\* The server has started on the local backend and served no request yet.
Started == backend = "Local" /\ phase = "serve" /\ \A t \in Requests : pc[t] = "idle"

\* C8: after startup on the local backend the store holds the seed event
\* alone, with secret "secret", and one question per fixture entry, each with
\* its own id, each in the seed event's question list, each with the votes,
\* flags and timestamp of its entry.
C8_SeededStore ==
    Started =>
      /\ DOMAIN events = {SeedEvent}
      /\ events[SeedEvent] = Str(SeedSecret)
      /\ Len(qs) = Len(seed)
      /\ Cardinality(DOMAIN questions) = Len(seed)
      /\ DOMAIN questions_by_eid = {SeedEvent}
      /\ Len(questions_by_eid[SeedEvent]) = Len(seed)
      /\ \A i \in 1..Len(seed) :
           LET q == qs[i][1]
           IN /\ \A j \in 1..Len(seed) : qs[j][1] = q => j = i
              /\ q \in DOMAIN questions
              /\ \E k \in 1..Len(seed) : questions_by_eid[SeedEvent][k] = q
              /\ questions[q].eid = SeedEvent
              /\ questions[q].votes = seed[i].likes
              /\ questions[q].hidden = seed[i].hidden
              /\ questions[q].answered = seed[i].answered
              /\ questions[q].when = seed[i].created

\* Started from a fixture of two different entries.
C8_Witness ==
    /\ Started
    /\ Len(seed) = 2
    /\ seed[1] # seed[2]
    /\ \E q \in DOMAIN questions : questions[q].hidden /\ questions[q].votes = 2

\* ---------------------------------------------------------------------- C9
\* C9: while the server serves, a flag of question Q changes only in a step
\* that ends a toggle request carrying the stored secret of the event that
\* owns Q.
C9_ToggleNeedsOwnerSecret ==
    [][\A q \in DOMAIN questions :
         (/\ phase = "serve"
          /\ \/ questions'[q].hidden # questions[q].hidden
             \/ questions'[q].answered # questions[q].answered)
           => \E t \in Requests :
                /\ Ends(t)
                /\ call[t].op = "toggle" /\ call[t].qid = q
                /\ HasSecret(questions[q].eid, call[t].secret)]_vars

\* --------------------------------------------------------------------- C10
\* C10: on the local backend every check_secret call leaves the mutex free
\* and not poisoned.
C10_MutexStaysUsable ==
    [][\A t \in Requests :
         (backend = "Local" /\ CheckReturns(t))
           => (holder' = 0 /\ ~poisoned')]_vars

====
